---- MODULE Spec2Model ----
(***************************************************************************)
(* Matrix (src/Matrix.h): a rectangular grid of int checked against a      *)
(* list of constraints.  The model follows one Matrix object from its      *)
(* construction by one of the two constructors that take arguments,        *)
(* through any sequence of getRow / setRow / getColumn / setColumn calls.  *)
(* Every call is one action; what the caller sees of it (the exception     *)
(* thrown, the value returned, the grid before the call) is kept until the *)
(* caller moves on (Return).                                               *)
(*                                                                         *)
(* Indices are 0-based as in the source; TLA+ sequences are 1-based, so    *)
(* m_Data[row] of the source is m_Data[row + 1] here.                      *)
(***************************************************************************)
EXTENDS Integers, Sequences, FiniteSets, TLC

\* ---------------------------------------------------------------- bounds
MaxRows == 2
MaxCols == 3
MaxCells == 4
MaxVal == 1
MaxConstraints == 2

Values == 0..MaxVal
RefValues == {1}

\* vectors of int of one length, and of every length up to n
Vectors(n) == [1..n -> Values]
VectorsUpTo(n) == UNION {Vectors(k) : k \in 0..n}

\* the sequences a caller passes or is handed for a row and for a column: of
\* at most n elements, and no longer than the bounds
RowVectors(n) == {v \in VectorsUpTo(MaxCols) : Len(v) <= n}
ColumnVectors(n) == {v \in VectorsUpTo(MaxRows) : Len(v) <= n}

\* grids (not necessarily rectangular) of nr rows holding at most `cells`
\* elements altogether
RECURSIVE GridsWith(_, _)
GridsWith(nr, cells) ==
    IF nr = 0 THEN {<< >>}
    ELSE UNION {{<<r>> \o g : g \in GridsWith(nr - 1, cells - Len(r))} :
                r \in RowVectors(cells)}
InputGrids == UNION {GridsWith(nr, MaxCells) : nr \in 0..MaxRows}

\* ------------------------------------------------------------ constraints
ConstaintType ==
    <<"equal", "notEqual", "greater", "greaterOrEqual", "less", "lessOrEqual">>

Constraint == [type : {ConstaintType[k] : k \in 1..6}, value : RefValues]

KindIndex(t) == CHOOSE k \in 1..6 : ConstaintType[k] = t

\* constraint lists offered to the constructors: at most MaxConstraints
\* constraints, listed in the order of the enum
RECURSIVE ConstraintLists(_, _)
ConstraintLists(n, from) ==
    IF n = 0 THEN {<< >>}
    ELSE {<< >>} \cup
         UNION {{<<c>> \o rest : rest \in ConstraintLists(n - 1, KindIndex(c.type) + 1)} :
                c \in {d \in Constraint : KindIndex(d.type) >= from}}
InputConstraints == ConstraintLists(MaxConstraints, 1)

\* the table with greater entered as greaterOrEqual
validationMap_orEqual(type, valToCheck, value) ==
    CASE type = "equal" -> valToCheck = value
      [] type = "notEqual" -> valToCheck # value
      [] type = "greater" -> valToCheck >= value
      [] type = "greaterOrEqual" -> valToCheck >= value
      [] type = "less" -> valToCheck < value
      [] type = "lessOrEqual" -> valToCheck <= value

validationMap(type, valToCheck, value) ==
    CASE type = "equal" -> valToCheck = value
      [] type = "notEqual" -> valToCheck # value
      [] type = "greater" -> valToCheck > value
      [] type = "greaterOrEqual" -> valToCheck >= value
      [] type = "less" -> valToCheck < value
      [] type = "lessOrEqual" -> valToCheck <= value

check(c, val) == validationMap(c.type, val, c.value)

\* ------------------------------------------------------------- exceptions
NoException == "none"
constraintViolation == "constraintViolation"
invalidSize == "invalidSize"
outOfRange == "outOfRange"

\* checkConstraints(int): the constraints in order, the first that fails throws
RECURSIVE checkConstraintsFrom(_, _, _)
checkConstraintsFrom(cs, k, value) ==
    IF k > Len(cs) THEN NoException
    ELSE IF ~check(cs[k], value) THEN constraintViolation
    ELSE checkConstraintsFrom(cs, k + 1, value)
checkConstraints(cs, value) == checkConstraintsFrom(cs, 1, value)

\* checkConstraints(const vector<int>&): the elements in order
RECURSIVE checkConstraintsVecFrom(_, _, _)
checkConstraintsVecFrom(cs, k, values) ==
    IF k > Len(values) THEN NoException
    ELSE IF checkConstraints(cs, values[k]) # NoException THEN constraintViolation
    ELSE checkConstraintsVecFrom(cs, k + 1, values)
checkConstraintsVec(cs, values) == checkConstraintsVecFrom(cs, 1, values)

\* ------------------------------------------------------------------ state
VARIABLES
    pc,             \* "start", "returned", "idle", "noObject", "aborted"
    m_numRows,
    m_numColumns,
    m_Data,
    m_Constraints,
    call,           \* the call that has just ended: its name and arguments
                    \* (the two overloads of setRow, and of setColumn, are
                    \* one call to the caller)
    thrown,         \* the exception it threw, or NoException
    result,         \* what it returned (getRow, getColumn)
    old_Data        \* m_Data as it was when the call began

vars == <<pc, m_numRows, m_numColumns, m_Data, m_Constraints, call, thrown,
          result, old_Data>>

object == <<m_numRows, m_numColumns, m_Data, m_Constraints>>

NoCall ==
    [op |-> "none", index |-> 0, data |-> << >>, numRows |-> 0, numColumns |-> 0,
     fillWith |-> 0, grid |-> << >>]

Init ==
    /\ pc = "start"
    /\ m_numRows = 0
    /\ m_numColumns = 0
    /\ m_Data = << >>
    /\ m_Constraints = << >>
    /\ call = NoCall
    /\ thrown = NoException
    /\ result = << >>
    /\ old_Data = << >>

\* ----------------------------------------------------------- constructors
\* Matrix(numRows, numColumns, fillWith, constraints)
MatrixSize(numRows, numColumns, fillWith, constraints) ==
    /\ pc = "start"
    /\ call' = [NoCall EXCEPT !.op = "MatrixSize", !.numRows = numRows,
                              !.numColumns = numColumns, !.fillWith = fillWith]
    /\ m_numRows' = numRows
    /\ m_numColumns' = numColumns
    /\ m_Constraints' = constraints
    /\ thrown' = checkConstraints(constraints, fillWith)
    /\ IF thrown' # NoException
       THEN /\ m_Data' = << >>
            /\ pc' = "noObject"
       ELSE /\ m_Data' = [i \in 1..numRows |-> [j \in 1..numColumns |-> fillWith]]
            /\ pc' = "returned"
    /\ UNCHANGED <<result, old_Data>>

\* the for_each rejecting only the rows that are too long
RECURSIVE checkRowSizesFrom_longer(_, _, _)
checkRowSizesFrom_longer(data, k, numColumns) ==
    IF k > Len(data) THEN NoException
    ELSE IF Len(data[k]) > numColumns THEN invalidSize
    ELSE checkRowSizesFrom_longer(data, k + 1, numColumns)

\* the for_each of the grid constructor: the first row of another size throws
RECURSIVE checkRowSizesFrom(_, _, _)
checkRowSizesFrom(data, k, numColumns) ==
    IF k > Len(data) THEN NoException
    ELSE IF Len(data[k]) # numColumns THEN invalidSize
    ELSE checkRowSizesFrom(data, k + 1, numColumns)

\* Matrix(data, fillWith, constraints)
MatrixGrid(data, fillWith, constraints) ==
    /\ pc = "start"
    /\ call' = [NoCall EXCEPT !.op = "MatrixGrid", !.grid = data]
    /\ m_numRows' = Len(data)
    /\ m_Data' = data
    /\ m_Constraints' = constraints
    /\ m_numColumns' = IF Len(data) > 0 THEN Len(data[1]) ELSE 0
    /\ thrown' = IF Len(data) > 0 THEN checkRowSizesFrom(data, 1, m_numColumns')
                 ELSE NoException
    /\ pc' = IF thrown' # NoException THEN "noObject" ELSE "returned"
    /\ UNCHANGED <<result, old_Data>>

\* ------------------------------------------------------ undefined behaviour
\* A read through storage that is no element of the vector (operator[] past
\* the end, or a reference to a vector that is already destroyed) yields any
\* value, or ends the process.
\* (the model's indeterminate values are those of Values, its indeterminate
\* vectors at most one element longer than the vector meant)
IndeterminateValue == Values

\* A write through operator[] past the end goes to the storage that follows
\* the vector's.  The rows of the grid are separate allocations next to that of
\* m_Data, so what follows may be the start of a row: the process ends, or
\* the call returns with the grid as it was, or with the first element of a
\* row overwritten.
Clobbered(grid) ==
    {grid} \cup
    {[grid EXCEPT ![r][1] = v] :
        r \in {q \in 1..Len(grid) : Len(grid[q]) > 0}, v \in IndeterminateValue}

OutOfBoundsWrite ==
    \/ /\ pc' = "aborted"
       /\ m_Data' = m_Data
    \/ /\ pc' = "returned"
       /\ m_Data' \in Clobbered(m_Data)

\* -------------------------------------------------------------- data access
\* const vector<int>& getRow(size_t row) const
GetRow(row) ==
    /\ pc = "idle"
    /\ call' = [NoCall EXCEPT !.op = "getRow", !.index = row]
    /\ old_Data' = m_Data
    /\ IF row > m_numRows
       THEN /\ thrown' = outOfRange
            /\ result' = << >>
            /\ pc' = "returned"
       ELSE /\ thrown' = NoException
            /\ IF row < Len(m_Data)
               THEN /\ result' = m_Data[row + 1]
                    /\ pc' = "returned"
               ELSE \/ /\ result' \in RowVectors(m_numColumns + 1)
                       /\ pc' = "returned"
                    \/ /\ result' = << >>
                       /\ pc' = "aborted"
    /\ UNCHANGED object

\* m_Data.push_back(data) in place of the assignment
assignRow_pushBack(grid, row, data) == Append(grid, data)

\* the assignment left out
assignRow_skipped(grid, row, data) == grid

\* m_Data[row] = data
assignRow(grid, row, data) == [grid EXCEPT ![row + 1] = data]

\* void setRow(size_t row, const vector<int>& data)
SetRow(row, data) ==
    /\ pc = "idle"
    /\ call' = [NoCall EXCEPT !.op = "setRow", !.index = row, !.data = data]
    /\ old_Data' = m_Data
    /\ result' = << >>
    /\ IF row > m_numRows
       THEN /\ thrown' = outOfRange
            /\ pc' = "returned"
            /\ m_Data' = m_Data
       ELSE IF Len(data) # m_numColumns
       THEN /\ thrown' = invalidSize
            /\ pc' = "returned"
            /\ m_Data' = m_Data
       ELSE IF checkConstraintsVec(m_Constraints, data) # NoException
       THEN /\ thrown' = constraintViolation
            /\ pc' = "returned"
            /\ m_Data' = m_Data
       ELSE /\ thrown' = NoException
            /\ IF row < Len(m_Data)
               THEN /\ m_Data' = assignRow(m_Data, row, data)
                    /\ pc' = "returned"
               ELSE OutOfBoundsWrite
    /\ UNCHANGED <<m_numRows, m_numColumns, m_Constraints>>

\* void setRow(size_t row, vector<int>&& data)
SetRowMove(row, data) ==
    /\ pc = "idle"
    /\ call' = [NoCall EXCEPT !.op = "setRow", !.index = row, !.data = data]
    /\ old_Data' = m_Data
    /\ result' = << >>
    /\ IF row > m_numRows
       THEN /\ thrown' = outOfRange
            /\ pc' = "returned"
            /\ m_Data' = m_Data
       ELSE IF Len(data) # m_numColumns
       THEN /\ thrown' = invalidSize
            /\ pc' = "returned"
            /\ m_Data' = m_Data
       ELSE IF checkConstraintsVec(m_Constraints, data) # NoException
       THEN /\ thrown' = constraintViolation
            /\ pc' = "returned"
            /\ m_Data' = m_Data
       ELSE /\ thrown' = NoException
            /\ IF row < Len(m_Data)
               THEN /\ m_Data' = assignRow(m_Data, row, data)
                    /\ pc' = "returned"
               ELSE OutOfBoundsWrite
    /\ UNCHANGED <<m_numRows, m_numColumns, m_Constraints>>

\* what the for_each of getColumn can collect: row[col] of every row, an
\* indeterminate value where col is past the end of the row
ColumnReads(col) ==
    {colData \in [1..Len(m_Data) -> Values \cup IndeterminateValue] :
        \A r \in 1..Len(m_Data) :
            col < Len(m_Data[r]) => colData[r] = m_Data[r][col + 1]}

\* return std::move(colData), as vector<int>&&: the caller is handed a
\* reference to a local that is destroyed on return
DanglingRead(colData) == {colData} \cup ColumnVectors(Len(colData) + 1)

\* vector<int>&& getColumn(size_t col) const
GetColumn(col) ==
    /\ pc = "idle"
    /\ call' = [NoCall EXCEPT !.op = "getColumn", !.index = col]
    /\ old_Data' = m_Data
    /\ IF col > m_numRows
       THEN /\ thrown' = outOfRange
            /\ result' = << >>
            /\ pc' = "returned"
       ELSE /\ thrown' = NoException
            /\ \/ /\ result' \in UNION {DanglingRead(colData) : colData \in ColumnReads(col)}
                  /\ pc' = "returned"
               \/ /\ result' = << >>
                  /\ pc' = "aborted"
    /\ UNCHANGED object

\* the for_each of setColumn: m_Data[row++][col] = val for every val of data
RECURSIVE assignColumnFrom(_, _, _, _)
assignColumnFrom(grid, k, col, data) ==
    IF k > Len(data) THEN grid
    ELSE assignColumnFrom([grid EXCEPT ![k][col + 1] = data[k]], k + 1, col, data)
\* the for_each starting at the second row
assignColumn_fromSecond(grid, col, data) == assignColumnFrom(grid, 2, col, data)

assignColumn(grid, col, data) == assignColumnFrom(grid, 1, col, data)

\* every m_Data[row][col] the for_each writes is an element of the grid
ColumnWriteInBounds(col, data) ==
    \A k \in 1..Len(data) : k <= Len(m_Data) /\ col < Len(m_Data[k])

\* setColumn checking each element as it writes it, in one loop
RECURSIVE assignColumnChecked(_, _, _, _, _)
assignColumnChecked(grid, k, col, data, cs) ==
    IF k > Len(data) \/ checkConstraints(cs, data[k]) # NoException THEN grid
    ELSE assignColumnChecked([grid EXCEPT ![k][col + 1] = data[k]], k + 1, col, data, cs)

SetColumn_checkWhileWriting(col, data) ==
    /\ pc = "idle"
    /\ call' = [NoCall EXCEPT !.op = "setColumn", !.index = col, !.data = data]
    /\ old_Data' = m_Data
    /\ result' = << >>
    /\ IF col > m_numColumns
       THEN /\ thrown' = outOfRange
            /\ pc' = "returned"
            /\ m_Data' = m_Data
       ELSE IF Len(data) # m_numRows
       THEN /\ thrown' = invalidSize
            /\ pc' = "returned"
            /\ m_Data' = m_Data
       ELSE IF ~ColumnWriteInBounds(col, data)
       THEN /\ thrown' = NoException
            /\ OutOfBoundsWrite
       ELSE /\ thrown' = checkConstraintsVec(m_Constraints, data)
            /\ pc' = "returned"
            /\ m_Data' = assignColumnChecked(m_Data, 1, col, data, m_Constraints)
    /\ UNCHANGED <<m_numRows, m_numColumns, m_Constraints>>

\* void setColumn(size_t col, const vector<int>& data)
SetColumn(col, data) ==
    /\ pc = "idle"
    /\ call' = [NoCall EXCEPT !.op = "setColumn", !.index = col, !.data = data]
    /\ old_Data' = m_Data
    /\ result' = << >>
    /\ IF col > m_numColumns
       THEN /\ thrown' = outOfRange
            /\ pc' = "returned"
            /\ m_Data' = m_Data
       ELSE IF Len(data) # m_numRows
       THEN /\ thrown' = invalidSize
            /\ pc' = "returned"
            /\ m_Data' = m_Data
       ELSE IF checkConstraintsVec(m_Constraints, data) # NoException
       THEN /\ thrown' = constraintViolation
            /\ pc' = "returned"
            /\ m_Data' = m_Data
       ELSE /\ thrown' = NoException
            /\ IF ColumnWriteInBounds(col, data)
               THEN /\ m_Data' = assignColumn(m_Data, col, data)
                    /\ pc' = "returned"
               ELSE OutOfBoundsWrite
    /\ UNCHANGED <<m_numRows, m_numColumns, m_Constraints>>

\* void setColumn(size_t col, vector<int>&& data)
SetColumnMove(col, data) ==
    /\ pc = "idle"
    /\ call' = [NoCall EXCEPT !.op = "setColumn", !.index = col, !.data = data]
    /\ old_Data' = m_Data
    /\ result' = << >>
    /\ IF col > m_numColumns
       THEN /\ thrown' = outOfRange
            /\ pc' = "returned"
            /\ m_Data' = m_Data
       ELSE IF Len(data) # m_numRows
       THEN /\ thrown' = invalidSize
            /\ pc' = "returned"
            /\ m_Data' = m_Data
       ELSE IF checkConstraintsVec(m_Constraints, data) # NoException
       THEN /\ thrown' = constraintViolation
            /\ pc' = "returned"
            /\ m_Data' = m_Data
       ELSE /\ thrown' = NoException
            /\ IF ColumnWriteInBounds(col, data)
               THEN /\ m_Data' = assignColumn(m_Data, col, data)
                    /\ pc' = "returned"
               ELSE OutOfBoundsWrite
    /\ UNCHANGED <<m_numRows, m_numColumns, m_Constraints>>

\* the caller has seen the outcome of the call and goes on
Return ==
    /\ pc = "returned"
    /\ pc' = "idle"
    /\ call' = NoCall
    /\ thrown' = NoException
    /\ result' = << >>
    /\ old_Data' = << >>
    /\ UNCHANGED object

\* the calls a caller makes on a Matrix that exists: every index up to one
\* past the off-by-one, every sequence up to one element too long
Calls ==
    \/ /\ pc = "idle"
       /\ \E row \in 0..(m_numRows + 1) : GetRow(row)
    \/ /\ pc = "idle"
       /\ \E row \in 0..(m_numRows + 1),
             data \in RowVectors(m_numColumns + 1) : SetRow(row, data)
    \/ /\ pc = "idle"
       /\ \E row \in 0..(m_numRows + 1),
             data \in RowVectors(m_numColumns + 1) : SetRowMove(row, data)
    \/ /\ pc = "idle"
       /\ \E col \in 0..(m_numRows + m_numColumns + 1) : GetColumn(col)
    \/ /\ pc = "idle"
       /\ \E col \in 0..(m_numColumns + 1),
             data \in ColumnVectors(m_numRows + 1) : SetColumn(col, data)
    \/ /\ pc = "idle"
       /\ \E col \in 0..(m_numColumns + 1),
             data \in ColumnVectors(m_numRows + 1) : SetColumnMove(col, data)

ConstructSize ==
    /\ pc = "start"
    /\ \E nr \in 0..MaxRows, nc \in 0..MaxCols, f \in Values, cs \in InputConstraints :
          nr * nc <= MaxCells /\ MatrixSize(nr, nc, f, cs)

ConstructGrid ==
    /\ pc = "start"
    /\ \E g \in InputGrids, f \in Values, cs \in InputConstraints : MatrixGrid(g, f, cs)

Next == ConstructSize \/ ConstructGrid \/ Calls \/ Return

\* a Matrix built from a grid
NextGrid == ConstructGrid \/ Calls \/ Return

Spec == Init /\ [][Next]_vars
SpecGrid == Init /\ [][NextGrid]_vars

\* =================================================================== claims
\* candidate <kind> referenceValue, for the six kinds
Holds(kind, candidate, referenceValue) ==
    \/ kind = "equal" /\ candidate = referenceValue
    \/ kind = "notEqual" /\ ~(candidate = referenceValue)
    \/ kind = "greater" /\ referenceValue < candidate
    \/ kind = "greaterOrEqual" /\ ~(candidate < referenceValue)
    \/ kind = "less" /\ candidate < referenceValue
    \/ kind = "lessOrEqual" /\ ~(referenceValue < candidate)

SatisfiesAll(cs, v) == \A k \in 1..Len(cs) : Holds(cs[k].type, v, cs[k].value)
AllSatisfyAll(cs, values) == \A k \in 1..Len(values) : SatisfiesAll(cs, values[k])

Exists == pc \in {"returned", "idle"}
Ended == pc \in {"returned", "aborted"}
RowOps == {"getRow", "setRow"}
ColumnOps == {"getColumn", "setColumn"}
SetRowOps == {"setRow"}
SetColumnOps == {"setColumn"}
Rectangular(grid) == \A r \in 1..Len(grid) : Len(grid[r]) = Len(grid[1])
ColumnOf(grid, j) == [r \in 1..Len(grid) |-> grid[r][j + 1]]

\* C1: whenever a Matrix exists (built by either constructor, after any
\* sequence of calls), every element of the grid satisfies every constraint
\* of the matrix.
C1_ElementsSatisfyConstraints ==
    Exists =>
        \A r \in 1..Len(m_Data) : \A c \in 1..Len(m_Data[r]) :
            SatisfiesAll(m_Constraints, m_Data[r][c])

\* C2: getRow / setRow with an index >= numRows and getColumn / setColumn
\* with an index >= numColumns throw OutOfRange and leave the grid as it was.
C2_OutOfRangeRejected ==
    /\ (Ended /\ call.op \in RowOps /\ call.index >= m_numRows) =>
           (pc = "returned" /\ thrown = outOfRange /\ m_Data = old_Data)
    /\ (Ended /\ call.op \in ColumnOps /\ call.index >= m_numColumns) =>
           (pc = "returned" /\ thrown = outOfRange /\ m_Data = old_Data)

\* C3: construction from a rectangular grid succeeds and stores the grid as
\* supplied; getRow(i) with i < numRows returns row i of the grid and
\* getColumn(j) with j < numColumns returns column j, one element per row.
C3_GridRoundTrip ==
    /\ (call.op = "MatrixGrid" /\ Rectangular(call.grid)) =>
           (pc = "returned" /\ thrown = NoException /\ m_Data = call.grid)
    /\ (Ended /\ call.op = "getRow" /\ call.index < m_numRows) =>
           (pc = "returned" /\ thrown = NoException /\ result = old_Data[call.index + 1])
    /\ (Ended /\ call.op = "getColumn" /\ call.index < m_numColumns) =>
           (pc = "returned" /\ thrown = NoException /\ result = ColumnOf(old_Data, call.index))

\* C4: whenever a Matrix exists, after a call that returned as after one
\* that threw, the grid has numRows rows of numColumns elements each, and
\* that is the shape it had before the call.
C4_ShapeInvariant ==
    Exists =>
        /\ Len(m_Data) = m_numRows
        /\ \A r \in 1..Len(m_Data) : Len(m_Data[r]) = m_numColumns
        /\ call.op \in RowOps \cup ColumnOps =>
               /\ Len(old_Data) = m_numRows
               /\ \A r \in 1..Len(old_Data) : Len(old_Data[r]) = m_numColumns

C4_Witness ==
    /\ pc = "returned"
    /\ call.op = "setColumn"
    /\ thrown = NoException
    /\ m_numRows = 2
    /\ m_numColumns = 1
    /\ m_Data # old_Data

\* C5: a setRow or setColumn that throws InvalidSize or ConstraintViolation
\* has written nothing: the grid is cell for cell what it was before the call.
C5_NoPartialWrite ==
    (call.op \in SetRowOps \cup SetColumnOps /\ thrown \in {invalidSize, constraintViolation}) =>
        (pc = "returned" /\ m_Data = old_Data)

\* a setColumn whose first element is acceptable and differs from the cell it
\* would replace, and whose second element violates a constraint
C5_Witness ==
    /\ call.op = "setColumn"
    /\ thrown = constraintViolation
    /\ call.index < m_numColumns
    /\ Len(call.data) = 2
    /\ SatisfiesAll(m_Constraints, call.data[1])
    /\ ~SatisfiesAll(m_Constraints, call.data[2])
    /\ call.data[1] # old_Data[1][call.index + 1]

\* C6: setRow and setColumn throw OutOfRange when the index is out of range,
\* whatever the sequence; otherwise InvalidSize when its length is wrong,
\* whatever its elements; only otherwise ConstraintViolation or nothing.
C6_FailurePriority ==
    /\ (Ended /\ call.op \in SetRowOps) =>
           IF call.index >= m_numRows THEN thrown = outOfRange
           ELSE IF Len(call.data) # m_numColumns THEN thrown = invalidSize
           ELSE thrown \in {constraintViolation, NoException}
    /\ (Ended /\ call.op \in SetColumnOps) =>
           IF call.index >= m_numColumns THEN thrown = outOfRange
           ELSE IF Len(call.data) # m_numRows THEN thrown = invalidSize
           ELSE thrown \in {constraintViolation, NoException}

\* C7: Matrix(numRows, numColumns, fillValue, constraints) succeeds exactly
\* when fillValue satisfies every constraint, with a numRows x numColumns grid
\* of fillValue; otherwise it throws ConstraintViolation and there is no matrix.
C7_SizeConstruction ==
    call.op = "MatrixSize" =>
        IF SatisfiesAll(m_Constraints, call.fillWith)
        THEN /\ pc = "returned"
             /\ thrown = NoException
             /\ m_numRows = call.numRows
             /\ m_numColumns = call.numColumns
             /\ m_Data = [i \in 1..call.numRows |-> [j \in 1..call.numColumns |-> call.fillWith]]
        ELSE /\ pc = "noObject"
             /\ thrown = constraintViolation

C7_Witness ==
    /\ call.op = "MatrixSize"
    /\ pc = "returned"
    /\ Len(m_Constraints) > 0
    /\ call.numRows = 2
    /\ call.numColumns = 2
    /\ call.fillWith = 1

\* C8: construction from a grid throws InvalidSize exactly when some row's
\* length differs from the first row's; when it succeeds numRows is the
\* number of rows supplied and numColumns the first row's length, 0 x 0 for an
\* empty grid.
C8_GridConstruction ==
    call.op = "MatrixGrid" =>
        /\ thrown = invalidSize <=> ~Rectangular(call.grid)
        /\ thrown # NoException => pc = "noObject"
        /\ thrown = NoException =>
               /\ pc = "returned"
               /\ m_numRows = Len(call.grid)
               /\ m_numColumns = (IF call.grid = << >> THEN 0 ELSE Len(call.grid[1]))

C8_Witness ==
    /\ call.op = "MatrixGrid"
    /\ thrown = invalidSize
    /\ Len(call.grid) = 2
    /\ Len(call.grid[1]) = 2
    /\ Len(call.grid[2]) = 1

\* C9: setRow(i, row), in either overload, with i < numRows and a row of
\* numColumns elements that all satisfy all constraints returns with row i
\* equal to row and every other row as before; getRow(i) with i < numRows
\* returns row i and changes nothing.
C9_SetRowGetRow ==
    /\ (Ended /\ call.op \in SetRowOps /\ call.index < m_numRows
          /\ Len(call.data) = m_numColumns /\ AllSatisfyAll(m_Constraints, call.data)) =>
           /\ pc = "returned"
           /\ thrown = NoException
           /\ Len(m_Data) = Len(old_Data)
           /\ m_Data[call.index + 1] = call.data
           /\ \A k \in 1..Len(old_Data) : k # call.index + 1 => m_Data[k] = old_Data[k]
    /\ (Ended /\ call.op = "getRow" /\ call.index < m_numRows) =>
           /\ pc = "returned"
           /\ thrown = NoException
           /\ result = m_Data[call.index + 1]
           /\ m_Data = old_Data

C9_Witness ==
    /\ pc = "returned"
    /\ call.op = "setRow"
    /\ thrown = NoException
    /\ m_numRows = 2
    /\ call.index = 1
    /\ Len(m_Constraints) > 0
    /\ m_Data[2] # old_Data[2]

\* C10: setColumn(j, newColumn), in either overload, with j < numColumns and
\* numRows elements that all satisfy all constraints returns with cell [r][j]
\* equal to newColumn[r] for every row r and every other cell as before.
C10_SetColumn ==
    (Ended /\ call.op \in SetColumnOps /\ call.index < m_numColumns
       /\ Len(call.data) = m_numRows /\ AllSatisfyAll(m_Constraints, call.data)) =>
        /\ pc = "returned"
        /\ thrown = NoException
        /\ Len(m_Data) = Len(old_Data)
        /\ \A r \in 1..Len(old_Data) :
               /\ Len(m_Data[r]) = Len(old_Data[r])
               /\ \A c \in 1..Len(old_Data[r]) :
                      m_Data[r][c] = (IF c = call.index + 1 THEN call.data[r] ELSE old_Data[r][c])

C10_Witness ==
    /\ pc = "returned"
    /\ call.op = "setColumn"
    /\ thrown = NoException
    /\ m_numRows = 2
    /\ m_numColumns = 2
    /\ call.index = 1
    /\ m_Data[1][2] # old_Data[1][2]
    /\ m_Data[2][2] # old_Data[2][2]

====
